---- MODULE Spec2Model ----
(***************************************************************************)
(* A model of to_do.py, the command-line to-do list.  Every invocation of  *)
(* the program is one step: the command loads tasks.json, transforms the   *)
(* collection, possibly saves it, prints, and exits with a code.           *)
(*                                                                         *)
(* Python values are represented as follows.                               *)
(*   str            a sequence of one-character strings                    *)
(*   Optional[x]    <<>> for None, <<x>> for a value                       *)
(*   dict (a task)  a record with the six fields add() writes              *)
(*   list of tasks  a sequence of records                                  *)
(***************************************************************************)
EXTENDS Integers, Sequences, FiniteSets, TLC

VARIABLES
    file,       \* tasks.json: [kind, data]
    now,        \* the local clock read by datetime.now() and date.today()
    stdout,     \* what the last invocation printed on the standard stream
    stderr,     \* what the last invocation printed on the error stream
    exit_code,  \* the exit code of the last invocation
    issued,     \* history: the ids add has assigned so far
    deleted     \* history: the ids a successful delete has removed so far

vars == <<file, now, stdout, stderr, exit_code, issued, deleted>>
hist == <<issued, deleted>>

(***************************************************************************)
(* Bounds of the model.                                                    *)
(***************************************************************************)
MaxTasks == 2       \* tasks in the collection, specification Spec
MaxId == 3          \* largest id given on a command line or assigned, Spec
MaxNow == 2         \* clock readings
IdsMaxTasks == 3    \* tasks in the collection, specification SpecIds
IdsMaxId == 4       \* largest id, specification SpecIds

(***************************************************************************)
(* Python values.                                                          *)
(***************************************************************************)
None == <<>>
Some(x) == <<x>>

DigitChars == <<"0", "1", "2", "3", "4", "5", "6", "7", "8", "9">>
IsDigit(c) == \E i \in 1..10 : DigitChars[i] = c
DigitVal(c) == (CHOOSE i \in 1..10 : DigitChars[i] = c) - 1

\* ord(c) for the characters that occur in the model's strings
Ord(c) ==
    IF IsDigit(c) THEN 48 + DigitVal(c)
    ELSE IF c = " " THEN 32
    ELSE IF c = "-" THEN 45
    ELSE IF c = "(" THEN 40
    ELSE IF c = ")" THEN 41
    ELSE IF c = "!" THEN 33
    ELSE IF c = "a" THEN 97
    ELSE 98

\* str < str: lexicographic by code point
RECURSIVE StrLess(_, _)
StrLess(a, b) ==
    IF b = <<>> THEN FALSE
    ELSE IF a = <<>> THEN TRUE
    ELSE IF Ord(Head(a)) # Ord(Head(b)) THEN Ord(Head(a)) < Ord(Head(b))
    ELSE StrLess(Tail(a), Tail(b))

\* str.strip(): leading and trailing whitespace removed
RECURSIVE lstrip(_)
lstrip(s) == IF s # <<>> /\ Head(s) = " " THEN lstrip(Tail(s)) ELSE s

RECURSIVE rstrip(_)
rstrip(s) ==
    IF s # <<>> /\ s[Len(s)] = " " THEN rstrip(SubSeq(s, 1, Len(s) - 1)) ELSE s

strip(s) == rstrip(lstrip(s))

(***************************************************************************)
(* Dates.  A date is <<year, month, day>>; its ISO string is the ten       *)
(* characters YYYY-MM-DD.                                                  *)
(***************************************************************************)
IsLeap(y) == (y % 4 = 0 /\ y % 100 # 0) \/ y % 400 = 0
DaysInMonth(y, m) ==
    IF m = 2 THEN (IF IsLeap(y) THEN 29 ELSE 28)
    ELSE IF m \in {4, 6, 9, 11} THEN 30 ELSE 31

\* the fields of s between the "-" separators
RECURSIVE SplitDash(_)
SplitDash(s) ==
    IF s = <<>> THEN << <<>> >>
    ELSE LET rest == SplitDash(Tail(s)) IN
         IF Head(s) = "-" THEN << <<>> >> \o rest
         ELSE << <<Head(s)>> \o rest[1] >> \o Tail(rest)

AllDigits(f) == \A i \in 1..Len(f) : IsDigit(f[i])

RECURSIVE NumVal(_)
NumVal(f) ==
    IF f = <<>> THEN 0 ELSE 10 * NumVal(SubSeq(f, 1, Len(f) - 1)) + DigitVal(f[Len(f)])

\* datetime.strptime(s, "%Y-%m-%d").date(): [ok, date]; ok = FALSE is ValueError.
\* %Y is exactly four digits, %m and %d one or two digits (%d also a space and
\* a digit), and the numbers must name a day of the calendar.
strptime(s) ==
    LET f == SplitDash(s)
        bad == [ok |-> FALSE, date |-> <<0, 0, 0>>]
    IN  IF Len(f) # 3 THEN bad
        ELSE LET fy == f[1]
                 fm == f[2]
                 fd == IF Len(f[3]) = 2 /\ f[3][1] = " " THEN Tail(f[3]) ELSE f[3]
             IN  IF ~(Len(fy) = 4 /\ AllDigits(fy)) THEN bad
                 ELSE IF ~(Len(fm) \in {1, 2} /\ AllDigits(fm)) THEN bad
                 ELSE IF ~(Len(fd) \in {1, 2} /\ AllDigits(fd)) THEN bad
                 ELSE LET y == NumVal(fy)
                          m == NumVal(fm)
                          d == NumVal(fd)
                      IN  IF y >= 1 /\ m \in 1..12 /\ d >= 1 /\ d <= DaysInMonth(y, m)
                          THEN [ok |-> TRUE, date |-> <<y, m, d>>]
                          ELSE bad

Digit(n) == DigitChars[n + 1]
Pad2(n) == <<Digit(n \div 10), Digit(n % 10)>>
Pad4(n) ==
    <<Digit(n \div 1000), Digit((n \div 100) % 10), Digit((n \div 10) % 10), Digit(n % 10)>>

\* date.isoformat()
isoformat(d) == Pad4(d[1]) \o <<"-">> \o Pad2(d[2]) \o <<"-">> \o Pad2(d[3])

\* date.fromisoformat(s) on a ten-character YYYY-MM-DD string
fromisoformat(s) ==
    IF Len(s) = 10 /\ s[5] = "-" /\ s[8] = "-"
       /\ AllDigits(SubSeq(s, 1, 4)) /\ AllDigits(SubSeq(s, 6, 7))
       /\ AllDigits(SubSeq(s, 9, 10))
    THEN LET y == NumVal(SubSeq(s, 1, 4))
             m == NumVal(SubSeq(s, 6, 7))
             d == NumVal(SubSeq(s, 9, 10))
         IN  IF y >= 1 /\ m \in 1..12 /\ d >= 1 /\ d <= DaysInMonth(y, m)
             THEN [ok |-> TRUE, date |-> <<y, m, d>>]
             ELSE [ok |-> FALSE, date |-> <<0, 0, 0>>]
    ELSE [ok |-> FALSE, date |-> <<0, 0, 0>>]

\* date < date
DateLess(a, b) ==
    \/ a[1] < b[1]
    \/ a[1] = b[1] /\ a[2] < b[2]
    \/ a[1] = b[1] /\ a[2] = b[2] /\ a[3] < b[3]

\* date.today() when the clock reads n: the n-th day of September 2025
today(n) == <<2025, 9, n>>

\* datetime.now().isoformat(timespec="seconds") when the clock reads n:
\* midnight of that day
timestamp(n) ==
    isoformat(today(n)) \o <<"T", "0", "0", ":", "0", "0", ":", "0", "0">>

(***************************************************************************)
(* Store.                                                                  *)
(***************************************************************************)
\* A JSON document is represented by its values: each value has its type t
\* and its text v as written in the file; an object is a record of values and
\* an array is a sequence.
JNull == [t |-> "null", v |-> <<>>]
JString(s) == [t |-> "string", v |-> s]
JBool(b) == [t |-> IF b THEN "true" ELSE "false", v |-> <<>>]

\* the decimal text of a non-negative int
RECURSIVE int_repr(_)
int_repr(n) ==
    IF n < 10 THEN <<Digit(n)>> ELSE int_repr(n \div 10) \o <<Digit(n % 10)>>

JNumber(n) == [t |-> "number", v |-> int_repr(n)]

\* mutant of json_dump_task: None written as the empty string
json_dump_task_none_as_string(t) ==
    [id |-> JNumber(t.id),
     text |-> JString(t.text),
     created_at |-> JString(t.created_at),
     due |-> IF t.due = None THEN JString(<<>>) ELSE JString(t.due[1]),
     priority |-> JNumber(t.priority),
     done |-> JBool(t.done)]

\* json.dump of one task: int as number, str as string, None as null, bool
\* as true or false
json_dump_task(t) ==
    [id |-> JNumber(t.id),
     text |-> JString(t.text),
     created_at |-> JString(t.created_at),
     due |-> IF t.due = None THEN JNull ELSE JString(t.due[1]),
     priority |-> JNumber(t.priority),
     done |-> JBool(t.done)]

json_dump(tasks) == [i \in 1..Len(tasks) |-> json_dump_task(tasks[i])]

\* json.load of one object: number as int, string as str, null as None
json_load_task(o) ==
    [id |-> NumVal(o.id.v),
     text |-> o.text.v,
     created_at |-> o.created_at.v,
     due |-> IF o.due.t = "null" THEN None ELSE Some(o.due.v),
     priority |-> NumVal(o.priority.v),
     done |-> o.done.t = "true"]

json_load(data) == [i \in 1..Len(data) |-> json_load_task(data[i])]

\* load_tasks: the list in the file, or [] when the file is missing, does
\* not parse, or holds something other than a list
load_tasks(f) == IF f.kind = "list" THEN json_load(f.data) ELSE <<>>

\* load_tasks raises: it catches json.JSONDecodeError only, so a file whose
\* bytes are not UTF-8 (UnicodeDecodeError) or whose arrays are nested too
\* deep for the decoder (RecursionError) ends the invocation
load_raises(f) == f.kind = "undecodable"

\* save_tasks: the whole file replaced by the list
save_tasks(tasks) == [kind |-> "list", data |-> json_dump(tasks)]

SetMax(S) == CHOOSE x \in S : \A y \in S : y <= x

\* mutant of next_id: the length of the list plus one
next_id_by_length(tasks) == Len(tasks) + 1

\* next_id: max id, default 0, plus one
next_id(tasks) ==
    (IF tasks = <<>> THEN 0 ELSE SetMax({tasks[i].id : i \in 1..Len(tasks)})) + 1

\* parse_date: [ok, due]; ok = FALSE is the error message and sys.exit(2)
parse_date(s) ==
    IF s = None \/ s = Some(<<>>) THEN [ok |-> TRUE, due |-> None]
    ELSE LET r == strptime(s[1]) IN
         IF r.ok THEN [ok |-> TRUE, due |-> Some(isoformat(r.date))]
         ELSE [ok |-> FALSE, due |-> None]

status_symbol(t) == IF t.done THEN "CHECK" ELSE "BULLET"

\* mutant of is_overdue: a task due today counted as overdue
is_overdue_on_due_day(t, n) ==
    IF t.done THEN FALSE
    ELSE IF t.due = None THEN FALSE
    ELSE LET r == fromisoformat(t.due[1]) IN
         IF r.ok THEN ~DateLess(today(n), r.date) ELSE FALSE

is_overdue(t, n) ==
    IF t.done THEN FALSE
    ELSE IF t.due = None THEN FALSE
    ELSE LET r == fromisoformat(t.due[1]) IN
         IF r.ok THEN DateLess(r.date, today(n)) ELSE FALSE

(***************************************************************************)
(* Output.                                                                 *)
(***************************************************************************)
Quiet == [msg |-> "", id |-> 0, text |-> <<>>, rows |-> <<>>]
Say(m, i) == [msg |-> m, id |-> i, text |-> <<>>, rows |-> <<>>]

Added(i, text) == [msg |-> "Added", id |-> i, text |-> text, rows |-> <<>>]
Table(rows) == [msg |-> "table", id |-> 0, text |-> <<>>, rows |-> rows]

\* the invocation ends: the file is f, the streams hold out and err
Exit(f, out, err, code) ==
    /\ exit_code' = code
    /\ stdout' = out
    /\ stderr' = err
    /\ file' = f
    /\ now' = now

\* print(f"Task #{id} not found.", file=sys.stderr); sys.exit(1)
NotFound(id) == Exit(file, Quiet, Say("not found", id), 1)

\* parse_date's error path: the message and sys.exit(2)
BadDate == Exit(file, Quiet, Say("bad date", 0), 2)

\* an exception nothing catches: the traceback and exit code 1
Crash == Exit(file, Quiet, Say("Traceback", 0), 1)

\* the index of the first task with this id, 0 when there is none
FirstIdx(tasks, id) ==
    IF \E i \in 1..Len(tasks) : tasks[i].id = id
    THEN CHOOSE i \in 1..Len(tasks) :
            tasks[i].id = id /\ \A j \in 1..(i - 1) : tasks[j].id # id
    ELSE 0

(***************************************************************************)
(* Command handlers.                                                       *)
(***************************************************************************)
\* mutant of add: the new task put at the front of the list
add_at_front(text, due, priority) ==
    IF load_raises(file) THEN Crash ELSE
    LET tasks == load_tasks(file)
        d == parse_date(due)
        task == [id |-> next_id(tasks),
                 text |-> strip(text),
                 created_at |-> timestamp(now),
                 due |-> d.due,
                 priority |-> priority,
                 done |-> FALSE]
    IN  IF ~d.ok THEN BadDate
        ELSE Exit(save_tasks(<<task>> \o tasks), Added(task.id, task.text), Quiet, 0)

add(text, due, priority) ==
    IF load_raises(file) THEN Crash ELSE
    LET tasks == load_tasks(file)
        d == parse_date(due)
        task == [id |-> next_id(tasks),
                 text |-> strip(text),
                 created_at |-> timestamp(now),
                 due |-> d.due,
                 priority |-> priority,
                 done |-> FALSE]
    IN  IF ~d.ok THEN BadDate
        ELSE Exit(save_tasks(Append(tasks, task)), Added(task.id, task.text), Quiet, 0)

\* mutant of sort_key: the done rank left out of the key
sort_key_without_done_rank(t) ==
    [done_rank |-> 0,
     pr |-> t.priority,
     due |-> IF t.due = None THEN <<"9", "9", "9", "9", "-", "1", "2", "-", "3", "1">>
             ELSE t.due[1],
     id |-> t.id]

\* sort_key: done last; then priority; then due (None as 9999-12-31); then id
sort_key(t) ==
    [done_rank |-> IF t.done THEN 1 ELSE 0,
     pr |-> t.priority,
     due |-> IF t.due = None THEN <<"9", "9", "9", "9", "-", "1", "2", "-", "3", "1">>
             ELSE t.due[1],
     id |-> t.id]

\* tuple comparison of two sort keys
KeyLess(a, b) ==
    \/ a.done_rank < b.done_rank
    \/ a.done_rank = b.done_rank /\ a.pr < b.pr
    \/ a.done_rank = b.done_rank /\ a.pr = b.pr /\ StrLess(a.due, b.due)
    \/ a.done_rank = b.done_rank /\ a.pr = b.pr /\ a.due = b.due /\ a.id < b.id

\* t placed in the sorted s after every element whose key is not greater
RECURSIVE Insert(_, _)
Insert(s, t) ==
    IF s = <<>> THEN <<t>>
    ELSE IF KeyLess(sort_key(t), sort_key(Head(s))) THEN <<t>> \o s
    ELSE <<Head(s)>> \o Insert(Tail(s), t)

\* tasks.sort(key=sort_key): a stable sort
RECURSIVE sort(_)
sort(tasks) ==
    IF tasks = <<>> THEN <<>>
    ELSE Insert(sort(SubSeq(tasks, 1, Len(tasks) - 1)), tasks[Len(tasks)])

\* one row of the table
row(t, n) ==
    [id |-> t.id,
     st |-> status_symbol(t),
     pri |-> t.priority,
     due |-> (IF t.due = None THEN <<"-">> ELSE t.due[1])
             \o (IF is_overdue(t, n) THEN <<" ", "(", "!", ")", " ">> ELSE <<>>),
     text |-> t.text]

IsDone(t) == t.done
NotDone(t) == ~t.done

\* the list of tasks list_cmd filters by args.done
list_filter(tasks, args_done) ==
    IF args_done = Some(TRUE) THEN SelectSeq(tasks, IsDone)
    ELSE IF args_done = Some(FALSE) THEN SelectSeq(tasks, NotDone)
    ELSE tasks

\* mutant of list_cmd: the sorted, filtered list written back to the file
list_cmd_saves_sorted(args_done) ==
    IF load_raises(file) THEN Crash ELSE
    LET tasks == sort(list_filter(load_tasks(file), args_done))
    IN  IF tasks = <<>> THEN Exit(save_tasks(tasks), Say("No tasks found.", 0), Quiet, 0)
        ELSE Exit(save_tasks(tasks),
                  Table([i \in 1..Len(tasks) |-> row(tasks[i], now)]), Quiet, 0)

list_cmd(args_done) ==
    IF load_raises(file) THEN Crash ELSE
    LET tasks == sort(list_filter(load_tasks(file), args_done))
    IN  IF tasks = <<>> THEN Exit(file, Say("No tasks found.", 0), Quiet, 0)
        ELSE Exit(file, Table([i \in 1..Len(tasks) |-> row(tasks[i], now)]), Quiet, 0)

\* mutant of done: the flag flipped instead of set
done_toggles(id) ==
    IF load_raises(file) THEN Crash ELSE
    LET tasks == load_tasks(file)
        i == FirstIdx(tasks, id)
    IN  IF i = 0 THEN NotFound(id)
        ELSE Exit(save_tasks([tasks EXCEPT ![i].done = ~tasks[i].done]),
                  Say("Marked done", id), Quiet, 0)

done(id) ==
    IF load_raises(file) THEN Crash ELSE
    LET tasks == load_tasks(file)
        i == FirstIdx(tasks, id)
    IN  IF i = 0 THEN NotFound(id)
        ELSE Exit(save_tasks([tasks EXCEPT ![i].done = TRUE]),
                  Say("Marked done", id), Quiet, 0)

\* mutant of delete: the not-found check left out
delete_without_check(id) ==
    IF load_raises(file) THEN Crash ELSE
    LET tasks == load_tasks(file)
        OtherId(t) == t.id # id
    IN  Exit(save_tasks(SelectSeq(tasks, OtherId)), Say("Deleted", id), Quiet, 0)

delete(id) ==
    IF load_raises(file) THEN Crash ELSE
    LET tasks == load_tasks(file)
        OtherId(t) == t.id # id
        kept == SelectSeq(tasks, OtherId)
    IN  IF Len(kept) = Len(tasks) THEN NotFound(id)
        ELSE Exit(save_tasks(kept), Say("Deleted", id), Quiet, 0)

\* mutant of edit: the collection saved before the due date is parsed
edit_saves_before_parse(id, text, due, priority) ==
    IF load_raises(file) THEN Crash ELSE
    LET tasks == load_tasks(file)
        i == FirstIdx(tasks, id)
    IN  IF i = 0 THEN NotFound(id)
        ELSE LET t1 == IF text # None
                       THEN [tasks EXCEPT ![i].text = strip(text[1])] ELSE tasks
                 d == IF due # None THEN parse_date(due) ELSE [ok |-> TRUE, due |-> None]
                 t2 == IF due # None THEN [t1 EXCEPT ![i].due = d.due] ELSE t1
                 t3 == IF priority # None
                       THEN [t2 EXCEPT ![i].priority = priority[1]] ELSE t2
             IN  IF ~d.ok THEN Exit(save_tasks(t1), Quiet, Say("bad date", 0), 2)
                 ELSE Exit(save_tasks(t3), Say("Updated", id), Quiet, 0)

\* mutant of edit: due assigned whether or not --due was given
edit_always_sets_due(id, text, due, priority) ==
    IF load_raises(file) THEN Crash ELSE
    LET tasks == load_tasks(file)
        i == FirstIdx(tasks, id)
    IN  IF i = 0 THEN NotFound(id)
        ELSE LET t1 == IF text # None
                       THEN [tasks EXCEPT ![i].text = strip(text[1])] ELSE tasks
                 d == parse_date(due)
                 t2 == [t1 EXCEPT ![i].due = d.due]
                 t3 == IF priority # None
                       THEN [t2 EXCEPT ![i].priority = priority[1]] ELSE t2
             IN  IF ~d.ok THEN BadDate
                 ELSE Exit(save_tasks(t3), Say("Updated", id), Quiet, 0)

\* mutant of edit: the due date parsed before the task is looked up
edit_parses_before_lookup(id, text, due, priority) ==
    IF load_raises(file) THEN Crash ELSE
    LET tasks == load_tasks(file)
        i == FirstIdx(tasks, id)
        d == IF due # None THEN parse_date(due) ELSE [ok |-> TRUE, due |-> None]
    IN  IF ~d.ok THEN BadDate
        ELSE IF i = 0 THEN NotFound(id)
        ELSE LET t1 == IF text # None
                       THEN [tasks EXCEPT ![i].text = strip(text[1])] ELSE tasks
                 t2 == IF due # None THEN [t1 EXCEPT ![i].due = d.due] ELSE t1
                 t3 == IF priority # None
                       THEN [t2 EXCEPT ![i].priority = priority[1]] ELSE t2
             IN  Exit(save_tasks(t3), Say("Updated", id), Quiet, 0)

\* mutant of edit: the edited task marked as not done
edit_resets_done(id, text, due, priority) ==
    IF load_raises(file) THEN Crash ELSE
    LET tasks == load_tasks(file)
        i == FirstIdx(tasks, id)
    IN  IF i = 0 THEN NotFound(id)
        ELSE LET t1 == IF text # None
                       THEN [tasks EXCEPT ![i].text = strip(text[1])] ELSE tasks
                 d == IF due # None THEN parse_date(due) ELSE [ok |-> TRUE, due |-> None]
                 t2 == IF due # None THEN [t1 EXCEPT ![i].due = d.due] ELSE t1
                 t3 == IF priority # None
                       THEN [t2 EXCEPT ![i].priority = priority[1]] ELSE t2
             IN  IF ~d.ok THEN BadDate
                 ELSE Exit(save_tasks([t3 EXCEPT ![i].done = FALSE]),
                           Say("Updated", id), Quiet, 0)

\* mutant of edit: an empty --due taken as if --due were not given
edit_empty_due_as_unset(id, text, due, priority) ==
    IF load_raises(file) THEN Crash ELSE
    LET tasks == load_tasks(file)
        i == FirstIdx(tasks, id)
        given == due # None /\ due # Some(<<>>)
    IN  IF i = 0 THEN NotFound(id)
        ELSE LET t1 == IF text # None
                       THEN [tasks EXCEPT ![i].text = strip(text[1])] ELSE tasks
                 d == IF given THEN parse_date(due) ELSE [ok |-> TRUE, due |-> None]
                 t2 == IF given THEN [t1 EXCEPT ![i].due = d.due] ELSE t1
                 t3 == IF priority # None
                       THEN [t2 EXCEPT ![i].priority = priority[1]] ELSE t2
             IN  IF ~d.ok THEN BadDate
                 ELSE Exit(save_tasks(t3), Say("Updated", id), Quiet, 0)

edit(id, text, due, priority) ==
    IF load_raises(file) THEN Crash ELSE
    LET tasks == load_tasks(file)
        i == FirstIdx(tasks, id)
    IN  IF i = 0 THEN NotFound(id)
        ELSE LET t1 == IF text # None
                       THEN [tasks EXCEPT ![i].text = strip(text[1])] ELSE tasks
                 d == IF due # None THEN parse_date(due) ELSE [ok |-> TRUE, due |-> None]
                 t2 == IF due # None THEN [t1 EXCEPT ![i].due = d.due] ELSE t1
                 t3 == IF priority # None
                       THEN [t2 EXCEPT ![i].priority = priority[1]] ELSE t2
             IN  IF ~d.ok THEN BadDate
                 ELSE Exit(save_tasks(t3), Say("Updated", id), Quiet, 0)

\* mutant of clear: --done keeps the completed tasks instead of the pending
clear_keeps_done(args_done, args_all) ==
    IF load_raises(file) THEN Crash ELSE
    LET tasks == load_tasks(file)
    IN  IF args_done
        THEN Exit(save_tasks(SelectSeq(tasks, IsDone)), Say("Cleared all completed tasks.", 0), Quiet, 0)
        ELSE IF args_all
        THEN Exit(save_tasks(<<>>), Say("Cleared all tasks.", 0), Quiet, 0)
        ELSE Exit(file, Quiet, Say("Specify --done or --all", 0), 2)

clear(args_done, args_all) ==
    IF load_raises(file) THEN Crash ELSE
    LET tasks == load_tasks(file)
    IN  IF args_done
        THEN Exit(save_tasks(SelectSeq(tasks, NotDone)), Say("Cleared all completed tasks.", 0), Quiet, 0)
        ELSE IF args_all
        THEN Exit(save_tasks(<<>>), Say("Cleared all tasks.", 0), Quiet, 0)
        ELSE Exit(file, Quiet, Say("Specify --done or --all", 0), 2)

(***************************************************************************)
(* The command line: build_parser and main.                                *)
(***************************************************************************)
\* args.done of "list": --done is store_true and --todo is store_false on the
\* same dest, and the namespace takes the default of the first action
\* registered for a dest, which is store_true's False
parse_list_done(flag) == IF flag = "--done" THEN Some(TRUE) ELSE Some(FALSE)

main_list(flag) == list_cmd(parse_list_done(flag))

\* args.priority of "add": default 3
main_add(text, due, priority) ==
    add(text, due, IF priority = None THEN 3 ELSE priority[1])

\* "clear": a required mutually exclusive group; without a flag the parser
\* itself reports the error and exits with code 2
main_clear(flag) ==
    IF flag = "" THEN Exit(file, Quiet, Say("usage", 0), 2)
    ELSE clear(flag = "--done", flag = "--all")

\* time passes between invocations
Tick ==
    /\ now < MaxNow
    /\ now' = now + 1
    /\ UNCHANGED <<file, stdout, stderr, exit_code>>

(***************************************************************************)
(* Command-line arguments the specifications draw from.                    *)
(***************************************************************************)
S_2025_9_1 == <<"2", "0", "2", "5", "-", "9", "-", "1">>
S_2025_8_2 == <<"2", "0", "2", "5", "-", "8", "-", "2">>
S_9999_12_31 == <<"9", "9", "9", "9", "-", "1", "2", "-", "3", "1">>
S_2025_13_01 == <<"2", "0", "2", "5", "-", "1", "3", "-", "0", "1">>

ListFlags == {"", "--done", "--todo"}
ClearFlags == {"", "--done", "--all"}

\* Spec: add and edit with text, due and priority of every form
AddTexts == {<<" ">>, <<" ", "a", " ">>}
AddDues == {None, Some(<<>>), Some(S_2025_13_01)}
AddPriorities == {None}
\* <<--text, --due, --priority>> of edit: none given, each alone, all three,
\* and a malformed --due alone and with --text
EditArgs ==
    {<<None, None, None>>,
     <<Some(<<" ", "a", " ">>), None, None>>,
     <<Some(<<" ">>), None, None>>,
     <<None, Some(<<>>), None>>,
     <<None, Some(S_2025_9_1), None>>,
     <<None, None, Some(1)>>,
     <<Some(<<" ", "a", " ">>), Some(S_2025_9_1), Some(1)>>,
     <<None, Some(S_2025_13_01), None>>,
     <<Some(<<" ", "a", " ">>), Some(S_2025_13_01), None>>}

\* SpecList: collections that differ in done, priority, due date and id
ListAddDues == {None, Some(S_2025_8_2), Some(S_9999_12_31)}
ListAddPriorities == {None, Some(1)}
ListEditArgs ==
    {<<None, Some(<<>>), None>>,
     <<None, None, Some(1)>>,
     <<None, Some(S_2025_13_01), None>>}

\* SpecDue: a due date set, and a malformed --due alone and with --text
DueEditArgs ==
    {<<None, Some(S_2025_9_1), None>>,
     <<None, Some(S_2025_13_01), None>>,
     <<Some(<<" ", "a", " ">>), Some(S_2025_13_01), None>>}

\* there is room, within the bounds, for one more task
Room(maxTasks, maxId) ==
    /\ Len(load_tasks(file)) < maxTasks
    /\ next_id(load_tasks(file)) <= maxId

(***************************************************************************)
(* Specifications.                                                         *)
(***************************************************************************)
Init ==
    /\ file \in {[kind |-> "missing", data |-> <<>>],
                 [kind |-> "malformed", data |-> <<>>],
                 [kind |-> "not a list", data |-> <<>>],
                 [kind |-> "list", data |-> <<>>]}
    /\ now = 1
    /\ stdout = Quiet
    /\ stderr = Quiet
    /\ exit_code = 0
    /\ issued = {}
    /\ deleted = {}

\* the file may also be one that load_tasks cannot decode
InitStore ==
    /\ file \in {[kind |-> "missing", data |-> <<>>],
                 [kind |-> "malformed", data |-> <<>>],
                 [kind |-> "not a list", data |-> <<>>],
                 [kind |-> "undecodable", data |-> <<>>],
                 [kind |-> "list", data |-> <<>>]}
    /\ now = 1
    /\ stdout = Quiet
    /\ stderr = Quiet
    /\ exit_code = 0
    /\ issued = {}
    /\ deleted = {}

\* Spec: every command, with arguments of every form
Next ==
    \/ \E text \in AddTexts, due \in AddDues, priority \in AddPriorities :
          Room(MaxTasks, MaxId) /\ main_add(text, due, priority) /\ UNCHANGED hist
    \/ \E flag \in ListFlags : main_list(flag) /\ UNCHANGED hist
    \/ \E id \in 1..MaxId : done(id) /\ UNCHANGED hist
    \/ \E id \in 1..MaxId : delete(id) /\ UNCHANGED hist
    \/ \E id \in 1..MaxId, a \in EditArgs : edit(id, a[1], a[2], a[3]) /\ UNCHANGED hist
    \/ \E flag \in ClearFlags : main_clear(flag) /\ UNCHANGED hist
    \/ Tick /\ UNCHANGED hist

Spec == Init /\ [][Next]_vars

\* SpecList: every command at one clock reading, over collections whose tasks
\* differ in the fields the table is sorted and rendered by
NextList ==
    \/ \E due \in ListAddDues, priority \in ListAddPriorities :
          Room(MaxTasks, MaxId) /\ main_add(<<"a">>, due, priority) /\ UNCHANGED hist
    \/ \E flag \in ListFlags : main_list(flag) /\ UNCHANGED hist
    \/ \E id \in 1..MaxId : done(id) /\ UNCHANGED hist
    \/ \E id \in 1..MaxId : delete(id) /\ UNCHANGED hist
    \/ \E id \in 1..MaxId, a \in ListEditArgs :
          edit(id, a[1], a[2], a[3]) /\ UNCHANGED hist
    \/ \E flag \in ClearFlags : main_clear(flag) /\ UNCHANGED hist

SpecList == Init /\ [][NextList]_vars

\* SpecStore: the commands of SpecList, from every state of the file
SpecStore == InitStore /\ [][NextList]_vars

\* SpecDue: every command, with --due of every form on add and on edit
NextDue ==
    \/ \E text \in AddTexts, due \in AddDues, priority \in AddPriorities :
          Room(MaxTasks, MaxId) /\ main_add(text, due, priority) /\ UNCHANGED hist
    \/ \E flag \in ListFlags : main_list(flag) /\ UNCHANGED hist
    \/ \E id \in 1..MaxId : done(id) /\ UNCHANGED hist
    \/ \E id \in 1..MaxId : delete(id) /\ UNCHANGED hist
    \/ \E id \in 1..MaxId, a \in DueEditArgs :
          edit(id, a[1], a[2], a[3]) /\ UNCHANGED hist
    \/ \E flag \in ClearFlags : main_clear(flag) /\ UNCHANGED hist

SpecDue == Init /\ [][NextDue]_vars

\* SpecIds: every command, over larger collections, with the history of the
\* ids add has assigned and delete has removed
NextIds ==
    \/ /\ Room(IdsMaxTasks, IdsMaxId)
       /\ main_add(<<"a">>, None, None)
       /\ issued' = issued \cup {next_id(load_tasks(file))}
       /\ UNCHANGED deleted
    \/ \E flag \in ListFlags : main_list(flag) /\ UNCHANGED hist
    \/ \E id \in 1..IdsMaxId : done(id) /\ UNCHANGED hist
    \/ \E id \in 1..IdsMaxId :
          /\ delete(id)
          /\ deleted' = IF exit_code' = 0 THEN deleted \cup {id} ELSE deleted
          /\ UNCHANGED issued
    \/ \E id \in 1..IdsMaxId : edit(id, Some(<<"a">>), None, None) /\ UNCHANGED hist
    \/ \E flag \in ClearFlags : main_clear(flag) /\ UNCHANGED hist

SpecIds == Init /\ [][NextIds]_vars

(***************************************************************************)
(* Claims.                                                                 *)
(***************************************************************************)
Stored == load_tasks(file)
StoredIds == {Stored[i].id : i \in 1..Len(Stored)}

\* C1: the id each add assigns is strictly greater than the id every earlier
\* add assigned, also when the earlier task has since been deleted or cleared.
C1_AddIdsStrictlyIncrease ==
    [][(stdout'.msg = "Added" /\ main_add(<<"a">>, None, None))
          => \A i \in issued : stdout'.id > i]_vars

\* C2: in every persisted collection every id is a positive integer and no two
\* tasks have the same id.
C2_IdsPositiveUnique ==
    /\ \A i \in 1..Len(Stored) : Stored[i].id \in Nat /\ Stored[i].id >= 1
    /\ \A i, j \in 1..Len(Stored) : i # j => Stored[i].id # Stored[j].id

\* C2 witness: a full collection saved after a delete, so that the ids are
\* no longer 1..n
C2_Witness ==
    /\ file.kind = "list"
    /\ Len(Stored) = IdsMaxTasks
    /\ deleted # {}
    /\ 1 \notin StoredIds

\* C6: once delete(id) has succeeded, no later list shows a task with that id.
C6_DeletedIdNeverListed ==
    stdout.msg = "table" =>
        \A k \in 1..Len(stdout.rows) : stdout.rows[k].id \notin deleted

\* C3: list with neither --done nor --todo shows every task of the stored
\* collection, done and pending alike.
C3_UnfilteredListShowsAll ==
    [][main_list("")
          => {stdout'.rows[k].id : k \in 1..Len(stdout'.rows)} = StoredIds]_vars

\* a --due value that is given and is not a valid YYYY-MM-DD date
NotADate(due) == due # None /\ ~strptime(due[1]).ok

\* the arguments of add and edit whose --due is not a valid date, and those
\* among them whose --due is not the empty string
InvalidAddDues == {due \in AddDues : NotADate(due)}
InvalidEditArgs == {a \in EditArgs : NotADate(a[2])}
MalformedAddDues == {due \in InvalidAddDues : due # Some(<<>>)}
MalformedEditArgs == {a \in InvalidEditArgs : a[2] # Some(<<>>)}
MalformedDueEditArgs == {a \in DueEditArgs : NotADate(a[2])}

\* C4, as stated: an add or edit whose --due value is not a valid YYYY-MM-DD
\* date leaves the file exactly as it was.  (file' = file is tested first: it
\* settles every step that writes nothing.)
C4_InvalidDueLeavesFile ==
    [][\/ file' = file
       \/ /\ \A text \in AddTexts, due \in InvalidAddDues, priority \in AddPriorities :
                ~main_add(text, due, priority)
          /\ \A id \in 1..MaxId, a \in InvalidEditArgs :
                ~edit(id, a[1], a[2], a[3])]_vars

\* C4, amended: an add or edit whose --due value is not empty and is not a
\* valid YYYY-MM-DD date leaves the file exactly as it was, whatever --text
\* and --priority it was given.
C4_MalformedDueLeavesFile ==
    [][\/ file' = file
       \/ /\ \A text \in AddTexts, due \in MalformedAddDues, priority \in AddPriorities :
                ~main_add(text, due, priority)
          /\ \A id \in 1..MaxId, a \in MalformedEditArgs :
                ~edit(id, a[1], a[2], a[3])]_vars

\* C4 witness: the date error reported with the collection full, which only
\* an edit of an existing task does, and no task has the text an edit gives
C4_Witness ==
    /\ stderr.msg = "bad date"
    /\ exit_code = 2
    /\ Len(Stored) = MaxTasks
    /\ \A i \in 1..Len(Stored) : Stored[i].text = <<>>

\* C5: done, delete and edit with an id no task has exit with code 1 and leave
\* the file unchanged; so does a delete repeated right after it succeeded.
C5_UnknownIdFails ==
    [][\/ exit_code' = 1 /\ file' = file
       \/ /\ LET ids == StoredIds
             IN  \A id \in 1..MaxId : id \notin ids =>
                    /\ ~done(id)
                    /\ ~delete(id)
                    /\ \A a \in EditArgs \cup ListEditArgs : ~edit(id, a[1], a[2], a[3])
          /\ stdout.msg = "Deleted" => ~delete(stdout.id)]_vars

\* C5 witness: not-found reported against a collection that holds tasks
C5_Witness ==
    /\ stderr.msg = "not found"
    /\ exit_code = 1
    /\ Len(Stored) = MaxTasks
    /\ stderr.id \notin StoredIds

DueDate(t) == IF t.due = None THEN <<9999, 12, 31>> ELSE fromisoformat(t.due[1]).date

\* a comes before b: pending before done, then the smaller priority, then the
\* earlier due date (no due date as 9999-12-31), then the smaller id
Before(a, b) ==
    \/ ~a.done /\ b.done
    \/ a.done = b.done /\ a.priority < b.priority
    \/ a.done = b.done /\ a.priority = b.priority /\ DateLess(DueDate(a), DueDate(b))
    \/ a.done = b.done /\ a.priority = b.priority /\ DueDate(a) = DueDate(b) /\ a.id < b.id

InKeyOrder(ts) == \A i, j \in 1..Len(ts) : i < j => Before(ts[i], ts[j])

TaskOf(id) == CHOOSE t \in {Stored[i] : i \in 1..Len(Stored)} : t.id = id

PendingOf(old, new) ==
    LET kept == {i \in 1..Len(old) : ~old[i].done}
    IN  /\ Len(new) = Cardinality(kept)
        /\ \A i \in kept : new[Cardinality({j \in kept : j <= i})] = old[i]

\* C8: clear --done leaves exactly the tasks that were not done, unchanged and
\* in their order; clear --all leaves the empty collection.
C8_ClearKeepsPending ==
    [][/\ main_clear("--done") => file'.kind = "list" /\ PendingOf(Stored, load_tasks(file'))
       /\ main_clear("--all") => file' = [kind |-> "list", data |-> <<>>]]_vars

\* C8 witness: clear --done has run and left a task
C8_Witness ==
    /\ stdout.msg = "Cleared all completed tasks."
    /\ Len(Stored) = 1
    /\ Stored[1].id = 2

\* C9: a successful edit changes only the fields given on the command line,
\* on the task with that id; the other fields, the other tasks and the order
\* stay.
C9_EditFrame ==
    [][stdout'.msg = "Updated" =>
          LET old == Stored
              new == load_tasks(file')
          IN  \A id \in {stdout'.id}, a \in EditArgs :
                 edit(id, a[1], a[2], a[3]) =>
                    /\ file'.kind = "list"
                    /\ Len(new) = Len(old)
                    /\ \A i \in 1..Len(old) :
                          IF old[i].id # id THEN new[i] = old[i]
                          ELSE /\ new[i].id = old[i].id
                               /\ new[i].created_at = old[i].created_at
                               /\ new[i].done = old[i].done
                               /\ a[1] = None => new[i].text = old[i].text
                               /\ a[2] = None => new[i].due = old[i].due
                               /\ a[3] = None => new[i].priority = old[i].priority]_vars

\* C9 witness: an edit has succeeded on the second of two tasks, which has a
\* due date, is done and was created at another time than the first
C9_Witness ==
    /\ stdout.msg = "Updated"
    /\ Len(Stored) = 2
    /\ Stored[2].id = stdout.id
    /\ Stored[2].due # None
    /\ Stored[2].done
    /\ Stored[2].created_at # Stored[1].created_at

\* C10: a successful done(id) sets done on the task with that id and changes
\* nothing else; on a task already done it exits 0 and the collection stays.
C10_DoneFrame ==
    [][\A id \in 1..MaxId : done(id) =>
          LET old == Stored
              new == load_tasks(file')
          IN  (\E i \in 1..Len(old) : old[i].id = id) =>
                 /\ exit_code' = 0
                 /\ file'.kind = "list"
                 /\ Len(new) = Len(old)
                 /\ \A i \in 1..Len(old) :
                       IF old[i].id # id THEN new[i] = old[i]
                       ELSE new[i] = [old[i] EXCEPT !.done = TRUE]
                 /\ old[FirstIdx(old, id)].done => new = old]_vars

\* C10 witness: done has succeeded on one of two tasks and the other is pending
C10_Witness ==
    /\ stdout.msg = "Marked done"
    /\ exit_code = 0
    /\ Len(Stored) = 2
    /\ \E i, j \in 1..2 : Stored[i].id = stdout.id /\ Stored[i].done /\ ~Stored[j].done

\* C11: list never writes the file: under every filter and in every state of
\* the file (missing, malformed, not an array, empty, non-empty) the file is
\* the same after list as before, although list sorts what it loaded.
C11_ListLeavesFile ==
    [][\A flag \in ListFlags : main_list(flag) => file' = file]_vars

\* C11 witness: a filtered table printed over a collection that the sort
\* reorders and the filter shortens
C11_Witness ==
    /\ stdout.msg = "table"
    /\ Len(stdout.rows) < Len(Stored)
    /\ sort(Stored) # Stored
    /\ stdout.rows[1].id # Stored[1].id

\* the task add appends to the stored collection
NewTask(due, priority) ==
    [id |-> next_id(Stored),
     text |-> <<"a">>,
     created_at |-> timestamp(now),
     due |-> parse_date(due).due,
     priority |-> IF priority = None THEN 3 ELSE priority[1],
     done |-> FALSE]

\* C15: round trip.  For the collection x a handler saves, loading the file
\* that save_tasks(x) writes yields x, with every field as it was and an
\* absent due date still absent, and saving what was loaded writes the same
\* file again.  x is the collection add, done and edit build from the stored
\* one; delete and clear save a part of the stored collection.
C15_RoundTrip ==
    [][file' # file /\ file'.kind = "list" =>
          LET old == Stored
              new == load_tasks(file')
          IN  /\ save_tasks(new) = file'
              /\ \A due \in ListAddDues, priority \in ListAddPriorities :
                    main_add(<<"a">>, due, priority) =>
                       new = Append(old, NewTask(due, priority))
              /\ \A i \in 1..Len(old) :
                    /\ done(old[i].id) => new = [old EXCEPT ![i].done = TRUE]
                    /\ edit(old[i].id, None, Some(<<>>), None) =>
                          new = [old EXCEPT ![i].due = None]
                    /\ edit(old[i].id, None, None, Some(1)) =>
                          new = [old EXCEPT ![i].priority = 1]
                    /\ delete(old[i].id) =>
                          \A k \in 1..Len(new) : \E j \in 1..Len(old) : new[k] = old[j]]_vars

\* C15 witness: a saved collection of a task without a due date before a
\* done task with one
C15_Witness ==
    /\ file.kind = "list"
    /\ Len(file.data) = 2
    /\ file.data[1].due = JNull
    /\ file.data[2].due.t = "string"
    /\ file.data[2].done.t = "true"
    /\ Stored[1].due = None
    /\ Stored[2].done

\* C12: when the file is missing, fails to parse, or holds something other
\* than an array, every command behaves as on the empty collection: add
\* assigns id 1 and the file becomes a one-task array, list prints the
\* no-tasks notice, done, delete and edit fail with not-found, and nothing is
\* reported because of the file.
C12_UnreadableFileAsEmpty ==
    [][file.kind # "list" =>
          /\ stderr'.msg \in {"", "not found", "usage"}
          /\ \A due \in ListAddDues, priority \in ListAddPriorities :
                main_add(<<"a">>, due, priority) =>
                   /\ exit_code' = 0
                   /\ stdout' = Added(1, <<"a">>)
                   /\ file'.kind = "list"
                   /\ Len(load_tasks(file')) = 1
                   /\ load_tasks(file')[1].id = 1
          /\ \A flag \in ListFlags :
                main_list(flag) =>
                   exit_code' = 0 /\ stdout' = Say("No tasks found.", 0)
          /\ \A id \in 1..MaxId :
                (\/ done(id)
                 \/ delete(id)
                 \/ \E a \in ListEditArgs : edit(id, a[1], a[2], a[3])) =>
                   /\ exit_code' = 1
                   /\ stderr' = Say("not found", id)
                   /\ file' = file]_vars

\* C13: in every persisted collection, every task's text is a non-empty
\* string with no whitespace at its start or its end, whatever text add and
\* edit were given.
C13_TextNonEmptyTrimmed ==
    \A i \in 1..Len(Stored) :
       /\ Stored[i].text # <<>>
       /\ strip(Stored[i].text) = Stored[i].text

\* the overdue marker at the end of a Due cell
Marker == <<" ", "(", "!", ")", " ">>
HasMarker(cell) ==
    Len(cell) > Len(Marker) /\ SubSeq(cell, Len(cell) - Len(Marker) + 1, Len(cell)) = Marker

\* C14: in every table list prints, the Due cell of a task carries the
\* overdue marker exactly when the task is not done, has a due date, and the
\* date is strictly before the date of the clock when list runs; a done task
\* and a task due today are not flagged.
C14_MarkerIffOverdue ==
    [][stdout'.msg = "table" /\ (\E flag \in ListFlags : main_list(flag)) =>
          \A k \in 1..Len(stdout'.rows) :
             LET t == TaskOf(stdout'.rows[k].id)
             IN  HasMarker(stdout'.rows[k].due) <=>
                    /\ ~t.done
                    /\ t.due # None
                    /\ DateLess(DueDate(t), today(now))]_vars

\* C14 witness: a table printed on the second day with a flagged row and an
\* unflagged row
C14_Witness ==
    /\ stdout.msg = "table"
    /\ now = MaxNow
    /\ \E k \in 1..Len(stdout.rows) : HasMarker(stdout.rows[k].due)
    /\ \E k \in 1..Len(stdout.rows) : ~HasMarker(stdout.rows[k].due)

\* C16: in every table, among tasks of the same done rank and the same
\* priority, a task without a due date comes after every task with a due
\* date, for every due date add and edit accept, whatever the ids.
C16_NoDueAfterEveryDue ==
    [][stdout'.msg = "table" /\ (\E flag \in ListFlags : main_list(flag)) =>
          \A i, j \in 1..Len(stdout'.rows) :
             LET a == TaskOf(stdout'.rows[i].id)
                 b == TaskOf(stdout'.rows[j].id)
             IN  (/\ a.done = b.done
                  /\ a.priority = b.priority
                  /\ a.due = None
                  /\ b.due # None) => j < i]_vars

C18_IdsIncreaseInFileOrder ==
    \A i, j \in 1..Len(Stored) : i < j => Stored[i].id < Stored[j].id

\* C18 witness: a full collection, saved after a delete and a later add, whose
\* ids have a gap and whose middle task is done
C18_Witness ==
    /\ file.kind = "list"
    /\ Len(Stored) = IdsMaxTasks
    /\ deleted # {}
    /\ Stored[IdsMaxTasks].id = IdsMaxId
    /\ Stored[2].done
    /\ stdout.msg = "Added"

\* C19: completion is irreversible.  A task that is done in the stored
\* collection is, after every step, still stored and still done, unless the
\* step is a delete of its id or a clear, which removes it.
C19_DoneStaysDone ==
    [][file' # file =>
          LET old == Stored
              new == load_tasks(file')
          IN  \A i \in 1..Len(old) :
                 old[i].done =>
                    \/ \E j \in 1..Len(new) : new[j].id = old[i].id /\ new[j].done
                    \/ /\ \A j \in 1..Len(new) : new[j].id # old[i].id
                       /\ \/ delete(old[i].id)
                          \/ main_clear("--done")
                          \/ main_clear("--all")]_vars

\* C19 witness: an edit has succeeded on the first of two tasks, which is
\* done, and the second is pending
C19_Witness ==
    /\ stdout.msg = "Updated"
    /\ Len(Stored) = 2
    /\ Stored[1].id = stdout.id
    /\ Stored[1].done
    /\ ~Stored[2].done

\* C20: edit --due "" on a stored task counts as a field given: it exits
\* with code 0 and leaves the task without a due date, the rest of the task
\* as it was; an edit without --due leaves the due date as it was.
C20_EmptyDueClears ==
    [][LET old == Stored
           new == load_tasks(file')
       IN  \A i \in 1..Len(old) :
              /\ edit(old[i].id, None, Some(<<>>), None) =>
                    /\ exit_code' = 0
                    /\ stdout' = Say("Updated", old[i].id)
                    /\ new = [old EXCEPT ![i].due = None]
              /\ edit(old[i].id, None, None, Some(1)) =>
                    /\ exit_code' = 0
                    /\ new[i].due = old[i].due]_vars

\* C20 witness: an edit has succeeded on a task that now has no due date and
\* still the priority add gave it, and the other task has a due date
C20_Witness ==
    /\ stdout.msg = "Updated"
    /\ exit_code = 0
    /\ Len(Stored) = 2
    /\ \E i, j \in 1..2 :
          /\ Stored[i].id = stdout.id
          /\ Stored[i].due = None
          /\ Stored[i].priority = 3
          /\ Stored[j].due # None

====
